---- MODULE Spec2Model ----
(***************************************************************************)
(* vectorlink: the Domain / derived-domain orchestrator (domain.rs) and    *)
(* the centroid comparator engines with their memoized distance tables     *)
(* (comparator.rs).                                                        *)
(*                                                                         *)
(* Eight specifications share this module.  Spec runs the Domain: several   *)
(* threads call concatenate_file, create_derived and derived_domain on one *)
(* shared Domain, one action per lock-delimited step of each call;         *)
(* SpecLive adds num_vecs and vec and schedules every thread fairly.       *)
(* SpecCentroid runs one centroid engine: store extends the vocabulary and *)
(* rebuilds the table, partial_distance indexes it in 16-bit arithmetic.   *)
(* SpecShared runs clones of a Centroid32Comparator and of a quantized     *)
(* comparator on their shared lists; SpecHandles runs comparisons of two   *)
(* stored ids against a store that waits for the list.  SpecIO runs        *)
(* serialize / deserialize of the centroid and quantized comparators       *)
(* against the files at a path, SpecMeta those of OpenAIComparator.        *)
(* SpecPure runs compare_raw on inline centroids and the iterator of       *)
(* vector_chunks.                                                          *)
(***************************************************************************)
EXTENDS Integers, Sequences, FiniteSets, TLC

VARIABLES
    file,            \* Domain.file: the primary VectorFile's records
    derived_domains, \* Domain.derived_domains: HashMap name -> deriver
    disk,            \* per derived-domain name: directory / quantizer / quantized.vecs
    dd_readers,      \* threads holding a read guard on derived_domains
    dd_writer,       \* thread holding the write guard on derived_domains
    dd_poisoned,     \* poison flag of the derived_domains RwLock
    file_readers,    \* threads holding a long-lived read guard on Domain.file
    pc,              \* per thread: position in its current call
    src,             \* concatenate_file: read_vector_file's records
    old_size,        \* concatenate_file: old_size
    todo,            \* concatenate_file: derivers the for loop has not reached
    cur,             \* concatenate_file: deriver whose concatenate_derived runs
    pos,             \* concatenate_derived: records the loader has handed out
    arg,             \* create_derived: name and deriver type
    trained,         \* NewDeriver::new: vectors.num_vecs() the sample was cut from
    result,          \* the call that returned last: its thread and what it returned
    calls,           \* calls started so far
    engine,          \* which centroid comparator: "Centroid32" or "Centroid16"
    centroids,       \* CentroidNNComparator.centroids
    distances,       \* CentroidNNComparator.distances: [partial_distances, size]
    ret,             \* Vec<VectorId> returned by the last store
    overflow_checks, \* build profile: arithmetic overflow panics (debug) or wraps
    cen_lock,        \* the RwLock around Centroid32Comparator.centroids
    qdata,           \* QuantizedNNComparator.data: the shared record list
    data_lock,       \* the RwLock around QuantizedNNComparator.data
    spc,             \* per clone: position in its current comparator call
    loc,             \* per clone: the locals of its current comparator call
    issued,          \* every VectorId a quantized store has returned so far
    sres,            \* the comparator call that returned last and its value
    ops,             \* comparator calls started so far
    writers_first,   \* RwLock policy: a waiting writer blocks new readers
    path,            \* the files under the path handed to serialize / deserialize
    serialized,      \* the centroid list the last serialize was called on
    loaded,          \* what the last deserialize returned
    cmp,             \* what the last compare_raw on inline vectors returned
    vc               \* vector_chunks: the iterator and what it has yielded

domVars == <<file, derived_domains, disk, dd_readers, dd_writer, dd_poisoned,
             file_readers, pc, src, old_size, todo, cur, pos, arg, trained,
             result, calls>>
cenVars == <<engine, centroids, distances, ret, overflow_checks>>
shVars == <<cen_lock, qdata, data_lock, spc, loc, issued, sres, ops,
            writers_first>>
ioVars == <<path, serialized, loaded, cmp, vc>>
vars == <<domVars, cenVars, shVars, ioVars>>

(***************************************************************************)
(* Bounds                                                                  *)
(***************************************************************************)
\* calls started in one run
MaxCalls == 3
\* longest source file handed to concatenate_file
MaxSrcLen == 2
\* records per chunk handed to a deriver: stands for Deriver::chunk_size(),
\* 1_000 in the source, scaled so that a source file spans several chunks
ChunkSize == 1

Threads == {"t1", "t2"}
Names == {"a", "b"}
DeriverTypes == {"Pq32", "Pq16"}
\* raw vectors; Quantize maps 0 and 1 to one code and 2 to another
Vecs == {0, 2}
None == "none"

RECURSIVE SeqsUpTo(_, _)
SeqsUpTo(S, n) ==
    IF n = 0 THEN {<<>>}
    ELSE LET shorter == SeqsUpTo(S, n - 1)
         IN  shorter \cup {Append(s, x) : s \in {q \in shorter : Len(q) = n - 1}, x \in S}

\* the files handed to concatenate_file: up to MaxSrcLen copies of one vector
Sources == {s \in SeqsUpTo(Vecs, MaxSrcLen) : \A i \in 1..Len(s) : s[i] = s[1]}

Min(a, b) == IF a < b THEN a ELSE b

(***************************************************************************)
(* Collaborators: the quantizer and the vector file                        *)
(***************************************************************************)
\* HnswQuantizer::quantize: the index of the nearest centroid, a lossy code
Quantize(v) == v \div 2

QuantizeAll(s) == [i \in 1..Len(s) |-> Quantize(s[i])]

\* SequentialVectorLoader: the chunk starting after `p` records
Chunk(s, p) == SubSeq(s, p + 1, Min(p + ChunkSize, Len(s)))

\* VectorFile::append_vector_range
AppendVectorRange(f, recs) == f \o recs

\* VectorFile::append_vector_file: the file afterwards; it returns its new count
AppendVectorFile(f, other) == f \o other

NumVecs(f) == Len(f)

EmptyMap == [n \in {} |-> None]
NoArg == [name |-> "", type |-> ""]
NoResult ==
    [thread |-> None, op |-> None, outcome |-> None, why |-> "", value |-> <<>>,
     arg |-> NoArg]
Res(op, outcome, why, value, a) ==
    [thread |-> None, op |-> op, outcome |-> outcome, why |-> why, value |-> value,
     arg |-> a]
NoDisk == [dir |-> FALSE, quantizer |-> FALSE, vecs |-> FALSE]

Registered == DOMAIN derived_domains

(***************************************************************************)
(* Initial states                                                          *)
(***************************************************************************)
\* Domain::open on a fresh directory
DomInit ==
    /\ file = <<>>
    /\ derived_domains = EmptyMap
    /\ disk = [n \in Names |-> NoDisk]
    /\ dd_readers = {}
    /\ dd_writer = None
    /\ dd_poisoned = FALSE
    /\ file_readers = {}
    /\ pc = [t \in Threads |-> "idle"]
    /\ src = [t \in Threads |-> <<>>]
    /\ old_size = [t \in Threads |-> 0]
    /\ todo = [t \in Threads |-> {}]
    /\ cur = [t \in Threads |-> None]
    /\ pos = [t \in Threads |-> 0]
    /\ arg = [t \in Threads |-> NoArg]
    /\ trained = [t \in Threads |-> 0]
    /\ result = NoResult
    /\ calls = 0

(***************************************************************************)
(* A call returning: the thread's locals go out of scope                   *)
(***************************************************************************)
Finish(t, r) ==
    /\ pc' = [pc EXCEPT ![t] = "idle"]
    /\ src' = [src EXCEPT ![t] = <<>>]
    /\ old_size' = [old_size EXCEPT ![t] = 0]
    /\ todo' = [todo EXCEPT ![t] = {}]
    /\ cur' = [cur EXCEPT ![t] = None]
    /\ pos' = [pos EXCEPT ![t] = 0]
    /\ arg' = [arg EXCEPT ![t] = NoArg]
    /\ trained' = [trained EXCEPT ![t] = 0]
    /\ result' = [r EXCEPT !.thread = t]

(***************************************************************************)
(* Domain::concatenate_file                                                *)
(***************************************************************************)
\* let read_vector_file = VectorFile::open(path, true)?;
\* let old_size = self.num_vecs();   (a read guard on file, dropped at once)
CfOpen(t) ==
    /\ UNCHANGED <<cenVars, shVars, ioVars>>
    /\ pc[t] = "idle"
    /\ calls < MaxCalls
    /\ calls' = calls + 1
    /\ \/ /\ \E s \in Sources : src' = [src EXCEPT ![t] = s]
          /\ old_size' = [old_size EXCEPT ![t] = NumVecs(file)]
          /\ pc' = [pc EXCEPT ![t] = "cf_lock"]
          /\ UNCHANGED <<todo, cur, pos, arg, trained, result>>
       \/ Finish(t, Res("concatenate_file", "err", "io", <<>>, NoArg))
    /\ UNCHANGED <<file, derived_domains, disk, dd_readers, dd_writer,
                   dd_poisoned, file_readers>>

\* let derived_domains = self.derived_domains.read().unwrap();
\* the guard lives to the end of the function
CfLock(t) ==
    /\ UNCHANGED <<cenVars, shVars, ioVars>>
    /\ pc[t] = "cf_lock"
    /\ dd_writer = None
    /\ IF dd_poisoned
       THEN /\ Finish(t, Res("concatenate_file", "panic", "poisoned", <<>>, NoArg))
            /\ UNCHANGED dd_readers
       ELSE /\ dd_readers' = dd_readers \cup {t}
            /\ todo' = [todo EXCEPT ![t] = Registered]
            /\ pc' = [pc EXCEPT ![t] = "cf_derive"]
            /\ UNCHANGED <<src, old_size, cur, pos, arg, trained, result>>
    /\ UNCHANGED <<file, derived_domains, disk, dd_writer, dd_poisoned,
                   file_readers, calls>>

\* for derived in derived_domains.values() { ...
\*     derived.concatenate_derived(read_vector_file.vector_chunks(chunk_size)?)?
\* the HashMap's iteration order is not specified: any remaining deriver is next
CfNextDeriver(t) ==
    /\ UNCHANGED <<cenVars, shVars, ioVars>>
    /\ pc[t] = "cf_derive"
    /\ cur[t] = None
    /\ todo[t] # {}
    /\ \/ /\ \E d \in todo[t] :
               /\ todo' = [todo EXCEPT ![t] = @ \ {d}]
               \* an empty loader yields no chunk: concatenate_derived returns Ok(())
               /\ cur' = [cur EXCEPT ![t] = IF Len(src[t]) = 0 THEN None ELSE d]
          /\ pos' = [pos EXCEPT ![t] = 0]
          /\ UNCHANGED <<dd_readers, pc, src, old_size, arg, trained, result>>
       \/ \* vector_chunks(chunk_size)? fails
          /\ Finish(t, Res("concatenate_file", "err", "io", <<>>, NoArg))
          /\ dd_readers' = dd_readers \ {t}
    /\ UNCHANGED <<file, derived_domains, disk, dd_writer, dd_poisoned,
                   file_readers, calls>>

\* PqDerivedDomain::concatenate_derived, one turn of `for chunk in loader`:
\* quantize the chunk, then file.write().unwrap() and append_vector_range
CfChunk(t) ==
    /\ UNCHANGED <<cenVars, shVars, ioVars>>
    /\ pc[t] = "cf_derive"
    /\ cur[t] # None
    /\ LET d == cur[t]
           chunk == Chunk(src[t], pos[t])
           after == pos[t] + Len(chunk)
       IN  \/ /\ derived_domains' = [derived_domains EXCEPT ![d].file =
                      AppendVectorRange(@, QuantizeAll(chunk))]
              /\ pos' = [pos EXCEPT ![t] = after]
              /\ cur' = [cur EXCEPT ![t] = IF after = Len(src[t]) THEN None ELSE d]
              /\ UNCHANGED <<dd_readers, pc, src, old_size, todo, arg, trained, result>>
           \/ \* `chunk?` or `append_vector_range(&result)?` fails: the error is
              \* returned as it is, nothing appended so far is taken back
              /\ Finish(t, Res("concatenate_file", "err", "io", <<>>, NoArg))
              /\ dd_readers' = dd_readers \ {t}
              /\ UNCHANGED derived_domains
    /\ UNCHANGED <<file, disk, dd_writer, dd_poisoned, file_readers, calls>>

\* the for loop over derived_domains.values() has run to its end
DerivationComplete_Early(t) == cur[t] = None
DerivationComplete(t) == todo[t] = {} /\ cur[t] = None

\* Ok((old_size, self.file_mut().append_vector_file(&read_vector_file)?))
CfAppend(t) ==
    /\ UNCHANGED <<cenVars, shVars, ioVars>>
    /\ pc[t] = "cf_derive"
    /\ DerivationComplete(t)
    /\ file_readers = {}
    /\ \/ /\ file' = AppendVectorFile(file, src[t])
          /\ Finish(t, Res("concatenate_file", "ok", "",
                           <<old_size[t], NumVecs(AppendVectorFile(file, src[t]))>>, NoArg))
       \/ /\ Finish(t, Res("concatenate_file", "err", "io", <<>>, NoArg))
          /\ UNCHANGED file
    /\ dd_readers' = dd_readers \ {t}
    /\ UNCHANGED <<derived_domains, disk, dd_writer, dd_poisoned, file_readers, calls>>

(***************************************************************************)
(* Domain::create_derived                                                  *)
(***************************************************************************)
\* PqDerivedDomain { file: RwLock::new(quantized_file), quantizer }
\* id stands for the identity of the Arc: the n-th deriver ever inserted
NewDeriver(t) ==
    [id |-> Cardinality(Registered) + 1, type |-> arg[t].type, file |-> <<>>, sample_len |-> trained[t]]

\* the registry create_derived leaves behind: derived_domains.insert(name, ..)
\* is its last statement, reached only when every `?` before it passed
RegistryOnExit_InsertFirst(t, inserted) ==
    (arg[t].name :> NewDeriver(t)) @@ derived_domains
RegistryOnExit(t, inserted) ==
    IF inserted
    THEN (arg[t].name :> NewDeriver(t)) @@ derived_domains
    ELSE derived_domains

\* let mut derived_domains = self.derived_domains.write().unwrap();
\* assert!(!derived_domains.contains_key(&name), ..);  let file = self.file();
\* a panic while the write guard is alive poisons the lock
CdLock(t) ==
    /\ UNCHANGED <<cenVars, shVars, ioVars>>
    /\ pc[t] = "idle"
    /\ calls < MaxCalls
    /\ dd_writer = None
    /\ dd_readers = {}
    /\ calls' = calls + 1
    /\ \E n \in Names, ty \in DeriverTypes :
         LET a == [name |-> n, type |-> ty]
         IN  IF dd_poisoned
             THEN /\ Finish(t, Res("create_derived", "panic", "poisoned", <<>>, a))
                  /\ UNCHANGED <<dd_writer, dd_poisoned, file_readers>>
             ELSE IF n \in Registered
             THEN /\ Finish(t, Res("create_derived", "panic", "duplicate", <<>>, a))
                  /\ dd_poisoned' = TRUE
                  /\ UNCHANGED <<dd_writer, file_readers>>
             ELSE /\ dd_writer' = t
                  /\ file_readers' = file_readers \cup {t}
                  /\ arg' = [arg EXCEPT ![t] = a]
                  /\ pc' = [pc EXCEPT ![t] = "cd_dir"]
                  /\ UNCHANGED <<dd_poisoned, src, old_size, todo, cur, pos, trained,
                                 result>>
    /\ UNCHANGED <<file, derived_domains, disk, dd_readers>>

\* an exit of create_derived with the guards dropped
CdExit_KeepsFileGuard(t, r, inserted, panicked) ==
    /\ Finish(t, r)
    /\ derived_domains' = RegistryOnExit(t, inserted)
    /\ dd_writer' = None
    /\ dd_poisoned' = (dd_poisoned \/ panicked)
    /\ file_readers' = file_readers
CdExit(t, r, inserted, panicked) ==
    /\ Finish(t, r)
    /\ derived_domains' = RegistryOnExit(t, inserted)
    /\ dd_writer' = None
    /\ dd_poisoned' = (dd_poisoned \/ panicked)
    /\ file_readers' = file_readers \ {t}

\* std::fs::create_dir_all(&path)?;
CdMkdir(t) ==
    /\ UNCHANGED <<cenVars, shVars, ioVars>>
    /\ pc[t] = "cd_dir"
    /\ \/ /\ disk' = [disk EXCEPT ![arg[t].name].dir = TRUE]
          /\ pc' = [pc EXCEPT ![t] = "cd_train"]
          /\ UNCHANGED <<derived_domains, dd_writer, dd_poisoned, file_readers,
                         src, old_size, todo, cur, pos, arg, trained, result>>
       \/ /\ CdExit(t, Res("create_derived", "err", "io", <<>>, arg[t]),
                    FALSE, FALSE)
          /\ UNCHANGED disk
    /\ UNCHANGED <<file, dd_readers, calls>>

\* NewDeriver::new up to centroid_quantizer.serialize(quantizer_path)?:
\* sample the file, run KMeans (.expect("KMeans fitted")), build the centroid
\* index, persist the quantizer
CdTrain(t) ==
    /\ UNCHANGED <<cenVars, shVars, ioVars>>
    /\ pc[t] = "cd_train"
    /\ \/ /\ trained' = [trained EXCEPT ![t] = NumVecs(file)]
          /\ disk' = [disk EXCEPT ![arg[t].name].quantizer = TRUE]
          /\ pc' = [pc EXCEPT ![t] = "cd_file"]
          /\ UNCHANGED <<derived_domains, dd_writer, dd_poisoned, file_readers,
                         src, old_size, todo, cur, pos, arg, result>>
       \/ \* an unwrap or expect in the training code panics
          /\ CdExit(t, Res("create_derived", "panic", "training", <<>>, arg[t]),
                    FALSE, TRUE)
          /\ UNCHANGED disk
       \/ \* serialize(quantizer_path)? fails
          /\ CdExit(t, Res("create_derived", "err", "io", <<>>, arg[t]),
                    FALSE, FALSE)
          /\ UNCHANGED disk
    /\ UNCHANGED <<file, dd_readers, calls>>

\* let quantized_file = VectorFile::create(quantized_path, true)?;
CdCreateFile(t) ==
    /\ UNCHANGED <<cenVars, shVars, ioVars>>
    /\ pc[t] = "cd_file"
    /\ \/ /\ disk' = [disk EXCEPT ![arg[t].name].vecs = TRUE]
          /\ pc' = [pc EXCEPT ![t] = "cd_insert"]
          /\ UNCHANGED <<derived_domains, dd_writer, dd_poisoned, file_readers,
                         src, old_size, todo, cur, pos, arg, trained, result>>
       \/ /\ CdExit(t, Res("create_derived", "err", "io", <<>>, arg[t]),
                    FALSE, FALSE)
          /\ UNCHANGED disk
    /\ UNCHANGED <<file, dd_readers, calls>>

\* derived_domains.insert(name, Arc::new(deriver)); Ok(())
CdInsert(t) ==
    /\ UNCHANGED <<cenVars, shVars, ioVars>>
    /\ pc[t] = "cd_insert"
    /\ CdExit(t, Res("create_derived", "ok", "", <<>>, arg[t]), TRUE, FALSE)
    /\ UNCHANGED <<file, disk, dd_readers, calls>>

(***************************************************************************)
(* Domain::derived_domain                                                  *)
(***************************************************************************)
\* what derived_domain::<T2>(name) yields: None, the panic of
\* .expect("derived domain was not of expected type"), or Some(handle)
Lookup(n, ty) ==
    IF n \notin Registered
    THEN Res("derived_domain", "none", "", <<>>, [name |-> n, type |-> ty])
    ELSE IF derived_domains[n].type # ty
    THEN Res("derived_domain", "panic", "type", <<>>, [name |-> n, type |-> ty])
    ELSE Res("derived_domain", "some", "", <<derived_domains[n].id>>,
             [name |-> n, type |-> ty])

\* let derived_domains = self.derived_domains.read().unwrap(); ...
\* the read guard is dropped when the function returns
DerivedDomain(t) ==
    /\ UNCHANGED <<cenVars, shVars, ioVars>>
    /\ pc[t] = "idle"
    /\ calls < MaxCalls
    /\ calls' = calls + 1
    /\ dd_writer = None
    /\ \E n \in Names, ty \in DeriverTypes :
         Finish(t, IF dd_poisoned
                   THEN Res("derived_domain", "panic", "poisoned", <<>>,
                            [name |-> n, type |-> ty])
                   ELSE Lookup(n, ty))
    /\ UNCHANGED <<file, derived_domains, disk, dd_readers, dd_writer,
                   dd_poisoned, file_readers>>

(***************************************************************************)
(* Domain::num_vecs and Domain::vec                                        *)
(***************************************************************************)
\* self.file().num_vecs(): a read guard on file for the length of the call;
\* no write guard on file is ever held across steps, so it is granted at once
NumVecsCall(t) ==
    /\ UNCHANGED <<cenVars, shVars, ioVars>>
    /\ pc[t] = "idle"
    /\ calls < MaxCalls
    /\ calls' = calls + 1
    /\ Finish(t, Res("num_vecs", "ok", "", <<NumVecs(file)>>, NoArg))
    /\ UNCHANGED <<file, derived_domains, disk, dd_readers, dd_writer,
                   dd_poisoned, file_readers>>

\* Ok(self.file().vec(id)?)
VecCall(t) ==
    /\ UNCHANGED <<cenVars, shVars, ioVars>>
    /\ pc[t] = "idle"
    /\ calls < MaxCalls
    /\ calls' = calls + 1
    /\ \/ \E id \in 1..Len(file) :
            Finish(t, Res("vec", "ok", "", <<file[id]>>, NoArg))
       \/ Finish(t, Res("vec", "err", "io", <<>>, NoArg))
    /\ UNCHANGED <<file, derived_domains, disk, dd_readers, dd_writer,
                   dd_poisoned, file_readers>>

(***************************************************************************)
(* The Domain specification                                                *)
(***************************************************************************)
\* an RwLock nobody holds; a clone may hold several read guards at once
NoLock == [writer |-> None, readers |-> [t \in Threads |-> 0]]
NoLoc ==
    [vid |-> 0, batch |-> <<>>, held |-> FALSE, seen_size |-> 0, seen_len |-> 0,
     during |-> FALSE]
NoSRes == [thread |-> None, op |-> None, ids |-> <<>>, batch |-> <<>>]
NoFile == [exists |-> FALSE, bytes |-> <<>>]
\* the files of a serialized comparator: the centroid file, the quantized
\* vectors file, and the metadata file of an OpenAIComparator
Files == {"index", "vectors", "meta"}
NoSerialized == [done |-> FALSE, list |-> <<>>, prior |-> 0, domain |-> <<>>]
NoLoaded ==
    [op |-> None, outcome |-> None, centroids |-> <<>>, data |-> <<>>, domain |-> <<>>,
     distances |-> [partial_distances |-> <<>>, size |-> 0]]
NoCmp == [done |-> FALSE, v1 |-> <<>>, v2 |-> <<>>, value |-> 0]
NoChunks == [n |-> 0, iter |-> 0, out |-> <<>>, last |-> "not_called"]

\* no comparator clone is in a call
ShIdle ==
    /\ cen_lock = NoLock
    /\ qdata = <<>>
    /\ data_lock = NoLock
    /\ spc = [t \in Threads |-> "idle"]
    /\ loc = [t \in Threads |-> NoLoc]
    /\ issued = {}
    /\ sres = NoSRes
    /\ ops = 0
    /\ writers_first = FALSE

\* nothing serialized, compared or streamed yet
IoIdle ==
    /\ path = [f \in Files |-> NoFile]
    /\ serialized = NoSerialized
    /\ loaded = NoLoaded
    /\ cmp = NoCmp
    /\ vc = NoChunks

CenIdle ==
    /\ engine = "Centroid32"
    /\ centroids = <<>>
    /\ distances = [partial_distances |-> <<>>, size |-> 0]
    /\ ret = <<>>
    /\ overflow_checks = FALSE

Init == DomInit /\ CenIdle /\ ShIdle /\ IoIdle

Next ==
    \/ \E t \in Threads : CfOpen(t)
    \/ \E t \in Threads : CfLock(t)
    \/ \E t \in Threads : CfNextDeriver(t)
    \/ \E t \in Threads : CfChunk(t)
    \/ \E t \in Threads : CfAppend(t)
    \/ \E t \in Threads : CdLock(t)
    \/ \E t \in Threads : CdMkdir(t)
    \/ \E t \in Threads : CdTrain(t)
    \/ \E t \in Threads : CdCreateFile(t)
    \/ \E t \in Threads : CdInsert(t)
    \/ \E t \in Threads : DerivedDomain(t)

Spec == Init /\ [][Next]_vars

\* the steps of thread t inside a call: once the lock a step waits for is
\* free and the training or file operation it stands for has ended, it is taken
Running(t) ==
    \/ CfLock(t)
    \/ CfNextDeriver(t)
    \/ CfChunk(t)
    \/ CfAppend(t)
    \/ CdMkdir(t)
    \/ CdTrain(t)
    \/ CdCreateFile(t)
    \/ CdInsert(t)

NextLive ==
    \/ \E t \in Threads : CfOpen(t)
    \/ \E t \in Threads : CfLock(t)
    \/ \E t \in Threads : CfNextDeriver(t)
    \/ \E t \in Threads : CfChunk(t)
    \/ \E t \in Threads : CfAppend(t)
    \/ \E t \in Threads : CdLock(t)
    \/ \E t \in Threads : CdMkdir(t)
    \/ \E t \in Threads : CdTrain(t)
    \/ \E t \in Threads : CdCreateFile(t)
    \/ \E t \in Threads : CdInsert(t)
    \/ \E t \in Threads : DerivedDomain(t)
    \/ \E t \in Threads : NumVecsCall(t)
    \/ \E t \in Threads : VecCall(t)

\* the Domain with all five calls, every thread scheduled again and again
SpecLive ==
    Init /\ [][NextLive]_vars /\ \A t \in Threads : WF_vars(Running(t))

(***************************************************************************)
(* Properties of the Domain                                                *)
(***************************************************************************)
RECURSIVE IsSubseq(_, _)
IsSubseq(a, b) ==
    IF Len(a) = 0 THEN TRUE
    ELSE IF Len(b) = 0 THEN FALSE
    ELSE IF Head(a) = Head(b) THEN IsSubseq(Tail(a), Tail(b))
    ELSE IsSubseq(a, Tail(b))

CdStates == {"cd_dir", "cd_train", "cd_file", "cd_insert"}
AllIdle == \A t \in Threads : pc[t] = "idle"
DFile(d) == derived_domains[d].file

\* thread t leaves concatenate_file in this step
CfReturns(t) == pc[t] = "cf_derive" /\ pc'[t] = "idle"
\* a create_derived call fails in this step: at its first statement, or later
CdFailsAtStart ==
    calls' = calls + 1 /\ pc' = pc /\ result'.op = "create_derived"
CdFailsInside(t) ==
    pc[t] \in CdStates /\ pc'[t] = "idle" /\ result'.outcome # "ok"
\* a derived_domain call runs in this step
LookupStep ==
    calls' = calls + 1 /\ pc' = pc /\ result'.op = "derived_domain"

\* C1: the primary file's record count advances only in the step of a
\* concatenate_file call for which concatenate_derived has already returned
\* for every registered deriver (none is still to be visited, none is running),
\* and each deriver's file then already holds the quantized records of the
\* whole source file.
C1_PrimaryAfterDerivers ==
    [][NumVecs(file') > NumVecs(file) =>
         \E t \in Threads :
            /\ CfReturns(t)
            /\ file' = AppendVectorFile(file, src[t])
            /\ \A d \in Registered :
                  /\ d \notin todo[t]
                  /\ cur[t] # d
                  /\ Len(DFile(d)) >= Len(src[t])
                  /\ IsSubseq(QuantizeAll(src[t]), DFile(d))]_vars

\* C1 witness: a call has appended a non-empty source file while both names
\* were registered, and both derivers hold as many records as the primary.
C1_Witness ==
    /\ result.op = "concatenate_file"
    /\ result.outcome = "ok"
    /\ NumVecs(file) > 0
    /\ Registered = Names
    /\ \A d \in Registered : Len(DFile(d)) = NumVecs(file)

\* C2: no registered deriver's file has fewer records than the primary file.
C2_DeriverNeverBehind ==
    \A d \in Registered : Len(DFile(d)) >= NumVecs(file)

\* the records thread t's running call has put into deriver d's file
Contributed(t, d) ==
    IF d = cur[t] THEN pos[t]
    ELSE IF d \in todo[t] THEN 0
    ELSE Len(src[t])

\* C3: when concatenate_derived fails, concatenate_file returns an error and
\* neither the primary file nor any deriver's file keeps a record of the call:
\* every deriver's file is shorter by what the call had put into it.
C3_FailedAppendLeavesNothing ==
    [][\A t \in Threads :
          (CfReturns(t) /\ cur[t] # None) =>
             /\ result'.outcome = "err"
             /\ file' = file
             /\ \A d \in Registered :
                   Len(derived_domains'[d].file) = Len(DFile(d)) - Contributed(t, d)]_vars

\* C4: for a deriver registered while the Domain was empty, once every call
\* has returned and the deriver holds exactly as many records as the primary
\* (no failed call left records behind), deriver record i is the quantization
\* of primary record i.
C4_DerivedAligned ==
    \A d \in Registered :
       (derived_domains[d].sample_len = 0 /\ AllIdle /\ Len(DFile(d)) = NumVecs(file)) =>
          \A i \in 1..NumVecs(file) : DFile(d)[i] = Quantize(file[i])

\* C5: a successful concatenate_file returns as start the primary count right
\* before its own append, and the records at the returned ids are the source
\* file's records in order.
C5_ReturnedRange ==
    [][\A t \in Threads :
          (CfReturns(t) /\ result'.outcome = "ok") =>
             /\ result'.value[1] = NumVecs(file)
             /\ SubSeq(file', result'.value[1] + 1, result'.value[2]) = src[t]]_vars

\* C6: create_derived proceeds only for a name not yet registered; a
\* duplicate call fails and leaves the registry as it was; and a
\* derived_domain call for that name made right after the failed duplicate,
\* with the registered type, returns the deriver of the first registration.
C6_DuplicateKeepsFirst ==
    [][/\ \A t \in Threads :
             (pc[t] = "idle" /\ pc'[t] = "cd_dir") => arg'[t].name \notin Registered
       /\ (CdFailsAtStart /\ result'.why = "duplicate") =>
             derived_domains' = derived_domains
       /\ (/\ result.op = "create_derived"
           /\ result.why = "duplicate"
           /\ LookupStep
           /\ result'.arg.name = result.arg.name
           /\ result'.arg.type = derived_domains[result.arg.name].type) =>
             /\ result'.outcome = "some"
             /\ result'.value = <<derived_domains[result.arg.name].id>>]_vars

\* C7: while a create_derived call runs its name is not registered, and a
\* step in which a create_derived call fails (create_dir_all, training,
\* quantizer persistence, VectorFile::create, or the duplicate assert) leaves
\* the registry's entries exactly as they were.
C7_FailedCreateKeepsRegistry ==
    [][/\ \A t \in Threads : pc[t] \in CdStates => arg[t].name \notin Registered
       /\ (CdFailsAtStart \/ \E t \in Threads : CdFailsInside(t)) =>
             derived_domains' = derived_domains]_vars

\* C7 witness: a create_derived call has failed after its first statement
\* (an I/O error or a training panic) on a Domain that holds another
\* deriver; its name is not registered.
C7_Witness ==
    /\ result.op = "create_derived"
    /\ result.outcome \in {"err", "panic"}
    /\ result.why \in {"io", "training"}
    /\ Registered # {}
    /\ result.arg.name \notin Registered

\* C8: derived_domain fails for a name that is not registered, fails with a
\* panic (not None, not a handle) for a name registered with another type, and
\* returns the registered deriver for a name registered with the expected type.
C8_LookupOutcomes ==
    [][LookupStep =>
         LET n == result'.arg.name
             ty == result'.arg.type
         IN  IF n \notin Registered THEN result'.outcome # "some"
             ELSE IF derived_domains[n].type # ty THEN result'.outcome = "panic"
             ELSE /\ result'.outcome = "some"
                  /\ result'.value = <<derived_domains[n].id>>]_vars

\* C19: a name enters the registry only in a step that finds its quantizer
\* persisted and its output file created, and every registered deriver any
\* call can observe has both on disk.
C19_RegisteredAfterPersisted ==
    [][/\ \A n \in Registered : disk[n].quantizer /\ disk[n].vecs
       /\ \A n \in Names :
            (n \notin Registered /\ n \in DOMAIN derived_domains') =>
               /\ disk[n].quantizer
               /\ disk[n].vecs
               /\ disk' = disk]_vars

\* a derived_domain call has been handed a registered deriver while the other
\* thread is inside a call of its own
C19_Witness ==
    /\ result.op = "derived_domain"
    /\ result.outcome = "some"
    /\ disk[result.arg.name].quantizer
    /\ disk[result.arg.name].vecs
    /\ \E t \in Threads : pc[t] # "idle"

\* C20: a create_derived call that fails during training or persistence
\* leaves nothing of that derived domain on disk: no directory, no quantizer,
\* no output vectors file.
C20_FailedCreateLeavesNoArtifact ==
    [][\A t \in Threads :
          (CdFailsInside(t) /\ pc[t] \in {"cd_train", "cd_file"}) =>
             disk'[arg[t].name] = NoDisk]_vars

\* C21: every failing exit of create_derived (duplicate name, training
\* failure, I/O error) leaves the registry's lock released and usable, and no
\* later concatenate_file, derived_domain or create_derived call fails on
\* that lock because of the earlier failure.
C21_FailedCreateLeavesLockUsable ==
    [][/\ (CdFailsAtStart \/ \E t \in Threads : CdFailsInside(t)) =>
             /\ ~dd_poisoned'
             /\ \A t \in Threads : dd_writer = t /\ pc'[t] = "idle" => dd_writer' = None
       /\ result' # result => result'.why # "poisoned"]_vars

\* C22: under any interleaving of concatenate_file, create_derived,
\* derived_domain, num_vecs and vec, with training and file operations that
\* end, no thread waits for ever on the registry lock, the primary file's
\* lock or a deriver's file lock: every call a thread is in returns.
\* The only calls that wait for one lock while holding another are
\* concatenate_file (registry read guard, then a file's write guard) and
\* create_derived (registry write guard, then the file's read guard): the two
\* never hold the registry together, so neither order closes a cycle.
C22_EveryCallReturns ==
    /\ [](\A t \in Threads : t \in dd_readers => dd_writer = None /\ file_readers = {})
    /\ \A t \in Threads : (pc[t] # "idle") ~> (pc[t] = "idle")

\* a concatenate_file call waits for the registry's read guard while a
\* create_derived call holds its write guard and a read guard on the file
C22_Witness ==
    \E t, u \in Threads :
       /\ pc[t] = "cf_lock"
       /\ dd_writer = u
       /\ u \in file_readers
       /\ result.op \in {"num_vecs", "vec"}

(***************************************************************************)
(* Centroid comparator engines: MemoizedPartialDistances32 / 16,            *)
(* Centroid32Comparator, Centroid16Comparator                              *)
(***************************************************************************)
\* centroids an engine is constructed with when it is not empty
BulkLen == 256
\* centroids store may add to an engine after its construction
MaxGrow == 2
\* centroids one store call is handed
MaxBatch == 2
\* u16: the type of partial_distance's index arithmetic
U16 == 65536

\* centroid vectors, cut to two components
CentroidVals == {<<0, 0>>, <<1, 0>>, <<2, 1>>}
CentroidAt(k) == <<k % 3, (k \div 3) % 2>>
\* a vocabulary as training or a centroid file yields it
Vocabulary == [k \in 1..BulkLen |-> CentroidAt(k)]
Batches == SeqsUpTo(CentroidVals, MaxBatch) \ {<<>>}

\* vecmath::euclidean_partial_distance_32 / _16: the sum of squared differences
RECURSIVE SumSq(_, _, _)
SumSq(a, b, k) ==
    IF k = 0 THEN 0 ELSE (a[k] - b[k]) * (a[k] - b[k]) + SumSq(a, b, k - 1)
EuclideanPartialDistance(a, b) == SumSq(a, b, Len(a))

\* MemoizedPartialDistancesNN::new: entry c (from 0) is the distance between
\* vectors[c / size] and vectors[c % size]
MemoizedNew(vectors) ==
    LET size == Len(vectors)
    IN  [partial_distances |->
            [c \in 1..(size * size) |->
                EuclideanPartialDistance(vectors[((c - 1) \div size) + 1],
                                         vectors[((c - 1) % size) + 1])],
         size |-> size]

Value(x) == [ok |-> TRUE, v |-> x]
Panic == [ok |-> FALSE, v |-> 0]

\* MemoizedPartialDistancesNN::partial_distance:
\*   self.partial_distances[(i * self.size as u16 + j) as usize]
\* `as u16` truncates; `*` and `+` on u16 panic on overflow when the build
\* checks overflow and wrap otherwise; indexing past the end (the table holds
\* size * size entries) panics
PartialDistanceIn(dist, i, j) ==
    LET size16 == dist.size % U16
        prod == i * size16
        sum == (prod % U16) + j
        index == sum % U16
    IN  IF overflow_checks /\ (prod >= U16 \/ sum >= U16) THEN Panic
        ELSE IF index >= dist.size * dist.size THEN Panic
        ELSE Value(dist.partial_distances[index + 1])

\* PartialDistance for CentroidNNComparator: self.distances...partial_distance(i, j)
PartialDistance(i, j) == PartialDistanceIn(distances, i, j)

\* centroids added since construction
Grown == IF Len(centroids) >= BulkLen THEN Len(centroids) - BulkLen ELSE Len(centroids)

\* the ids store hands back: VectorId(vid + i) for the i-th new centroid
StoredIds(vid, k) == [i \in 1..k |-> vid + (i - 1)]

\* VectorStore::store for Centroid32Comparator: extend the list under its
\* write guard, rebuild the table, swap it in under the table's write guard
Store32 ==
    /\ UNCHANGED <<domVars, shVars, ioVars>>
    /\ engine = "Centroid32"
    /\ \E batch \in Batches :
         /\ Grown + Len(batch) <= MaxGrow
         /\ centroids' = centroids \o batch
         /\ ret' = StoredIds(Len(centroids), Len(batch))
         /\ distances' = MemoizedNew(centroids \o batch)
    /\ UNCHANGED <<engine, overflow_checks>>

\* VectorStore::store for Centroid16Comparator: clone the list, extend the
\* clone, build a table for it, replace both fields
Store16 ==
    /\ UNCHANGED <<domVars, shVars, ioVars>>
    /\ engine = "Centroid16"
    /\ \E batch \in Batches :
         /\ Grown + Len(batch) <= MaxGrow
         /\ LET data == centroids \o batch
            IN  /\ ret' = StoredIds(Len(centroids), Len(batch))
                /\ distances' = MemoizedNew(data)
                /\ centroids' = data
    /\ UNCHANGED <<engine, overflow_checks>>

\* an engine as Default, deserialize or a struct literal constructs it
CenInit ==
    /\ engine \in {"Centroid32", "Centroid16"}
    /\ overflow_checks \in BOOLEAN
    /\ centroids \in {<<>>, Vocabulary}
    /\ distances = MemoizedNew(centroids)
    /\ ret = <<>>

InitCentroid == DomInit /\ CenInit /\ ShIdle /\ IoIdle

NextCentroid == Store32 \/ Store16

SpecCentroid == InitCentroid /\ [][NextCentroid]_vars

(***************************************************************************)
(* Properties of the centroid engines                                      *)
(***************************************************************************)
\* C9: for all ids a, b below the centroid count, partial_distance(a, b)
\* equals partial_distance(b, a), and partial_distance(a, a) is 0.
C9_SymmetricZeroDiagonal ==
    \A a, b \in 0..(Len(centroids) - 1) :
       /\ PartialDistance(a, b) = PartialDistance(b, a)
       /\ PartialDistance(a, a) = Value(0)

\* C10: store on an engine of n centroids with k new ones returns the ids
\* n..n+k-1 in order, makes the table (n+k) x (n+k), and leaves
\* partial_distance(i, j) as it was for all i, j < n.
C10_StoreKeepsOldDistances ==
    [][centroids' # centroids =>
         LET n == Len(centroids)
             k == Len(centroids') - n
         IN  /\ ret' = [i \in 1..k |-> n + i - 1]
             /\ distances'.size = n + k
             /\ Len(distances'.partial_distances) = (n + k) * (n + k)
             /\ \A i, j \in 0..(n - 1) :
                   PartialDistanceIn(distances', i, j) = PartialDistanceIn(distances, i, j)]_vars

(***************************************************************************)
(* QuantizedNNComparator::compare_raw over the centroid engine's table      *)
(***************************************************************************)
\* codes per quantized embedding: stands for QUANTIZED_32_EMBEDDING_LENGTH (48)
\* and QUANTIZED_16_EMBEDDING_LENGTH (96)
QuantizedLen == 2

\* f32::sqrt on the integer grid of the model: exact on perfect squares,
\* rounded down elsewhere
Sqrt(x) == CHOOSE r \in 0..x : r * r <= x /\ (r + 1) * (r + 1) > x

\* the loop of compare_raw: partial_distances[ix] = self.cc.partial_distance(
\* v1[ix], v2[ix]), summed by vecmath::sum_48 / sum_96; a panicking
\* partial_distance ends the call
RECURSIVE SumPartials(_, _, _)
SumPartials(v1, v2, ix) ==
    IF ix = 0 THEN Value(0)
    ELSE LET rest == SumPartials(v1, v2, ix - 1)
             partial_distance == PartialDistance(v1[ix], v2[ix])
         IN  IF rest.ok /\ partial_distance.ok
             THEN Value(rest.v + partial_distance.v)
             ELSE Panic

\* Quantized32Comparator::compare_raw / Quantized16Comparator::compare_raw
QuantizedCompareRaw(v1, v2) ==
    LET sum == SumPartials(v1, v2, QuantizedLen)
    IN  IF sum.ok THEN Value(Sqrt(sum.v)) ELSE Panic

\* quantized embeddings whose codes are all indices of stored centroids
ValidEmbeddings == [1..QuantizedLen -> 0..(Len(centroids) - 1)]

\* C13: for every quantized embedding q whose codes are all valid centroid
\* indices, compare_raw(q, q) returns 0.
C13_SelfDistanceZero ==
    \A q \in ValidEmbeddings : QuantizedCompareRaw(q, q) = Value(0)

\* C18: for all indices i, j below the centroid count, partial_distance(i, j)
\* returns the entry of row i and column j, the distance between centroid i
\* and centroid j: the 16-bit flat index equals i * n + j.
C18_IndexIsRowColumn ==
    \A i, j \in 0..(Len(centroids) - 1) :
       PartialDistance(i, j) =
          Value(EuclideanPartialDistance(centroids[i + 1], centroids[j + 1]))

(***************************************************************************)
(* Comparators shared between clones: every clone of a Centroid32Comparator *)
(* or of a quantized comparator holds the same Arc<RwLock<..>> fields, so   *)
(* the threads below run their calls on one centroid list, one distance     *)
(* table and one record list.                                               *)
(***************************************************************************)
\* comparator calls started in one run
MaxOps == 3

\* what a shared centroid comparator starts with, and what store is handed
ShLists == {<<>>, << <<0, 0>> >>}
ShBatches == {<< <<1, 0>> >>, << <<1, 0>>, <<2, 1>> >>}
\* quantized records, cut to two codes, and what a quantized store is handed
QRecs == {<<0, 0>>, <<0, 1>>}
QBatches == SeqsUpTo(QRecs, 2) \ {<<>>}

\* RwLock::write() returns once no guard of any kind is out
Free_Always(l) == TRUE
Free(l) == l.writer = None /\ \A t \in Threads : l.readers[t] = 0
\* RwLock::read() returns once no write guard is out
CanRead(l) == l.writer = None

\* a store on the centroid list has extended it and not yet returned
StoreInProgress == \E t \in Threads : spc[t] = "st_swap"

ShReturn(t, r) ==
    /\ spc' = [spc EXCEPT ![t] = "idle"]
    /\ loc' = [loc EXCEPT ![t] = NoLoc]
    /\ sres' = [r EXCEPT !.thread = t]

\* Centroid32Comparator::store, first half: centroids.write(), vid = data.len(),
\* data.extend(..), MemoizedPartialDistances32::new(&data) into a local
StBegin(t) ==
    /\ UNCHANGED <<domVars, ioVars>>
    /\ spc[t] = "idle"
    /\ ops < MaxOps
    /\ ops' = ops + 1
    /\ Free(cen_lock)
    /\ \E batch \in ShBatches :
         /\ loc' = [loc EXCEPT ![t] = [NoLoc EXCEPT !.vid = Len(centroids),
                                                     !.batch = batch]]
         /\ centroids' = centroids \o batch
    /\ cen_lock' = [cen_lock EXCEPT !.writer = t]
    /\ spc' = [spc EXCEPT ![t] = "st_swap"]
    /\ UNCHANGED <<engine, distances, ret, overflow_checks, qdata, data_lock,
                   issued, writers_first, sres>>

\* Centroid32Comparator::store, second half: distances.write(), *dist = distances,
\* return the ids; both write guards are dropped on return.  No read guard of
\* the table outlives the partial_distance call that took it, so the table's
\* write guard is always granted.
StSwap(t) ==
    /\ UNCHANGED <<domVars, ioVars>>
    /\ spc[t] = "st_swap"
    /\ distances' = MemoizedNew(centroids)
    /\ ret' = StoredIds(loc[t].vid, Len(loc[t].batch))
    /\ cen_lock' = [cen_lock EXCEPT !.writer = None]
    /\ ShReturn(t, [NoSRes EXCEPT !.op = "store32",
                                  !.ids = StoredIds(loc[t].vid, Len(loc[t].batch)),
                                  !.batch = loc[t].batch])
    /\ UNCHANGED <<engine, centroids, overflow_checks, qdata, data_lock, issued,
                   writers_first, ops>>

\* a reader calls partial_distance first: distances.read() for the length of
\* the call; the table it indexes has dimension distances.size
RdTableFirst(t) ==
    /\ UNCHANGED <<domVars, cenVars, ioVars>>
    /\ spc[t] = "idle"
    /\ ops < MaxOps
    /\ ops' = ops + 1
    /\ loc' = [loc EXCEPT ![t] = [NoLoc EXCEPT !.seen_size = distances.size,
                                                !.during = StoreInProgress]]
    /\ spc' = [spc EXCEPT ![t] = "rd_list"]
    /\ UNCHANGED <<cen_lock, qdata, data_lock, issued, writers_first, sres>>

\* ... and then lookup: centroids.read(); the handle sees the list as it is now
RdListSecond(t) ==
    /\ UNCHANGED <<domVars, cenVars, ioVars>>
    /\ spc[t] = "rd_list"
    /\ CanRead(cen_lock)
    /\ loc' = [loc EXCEPT ![t].seen_len = Len(centroids)]
    /\ spc' = [spc EXCEPT ![t] = "rd_done"]
    /\ UNCHANGED <<cen_lock, qdata, data_lock, issued, writers_first, sres, ops>>

\* a reader calls lookup first; it keeps the ReadLockedVec (the read guard)
\* or drops it before it goes on
RdListFirst(t) ==
    /\ UNCHANGED <<domVars, cenVars, ioVars>>
    /\ spc[t] = "idle"
    /\ ops < MaxOps
    /\ ops' = ops + 1
    /\ CanRead(cen_lock)
    /\ \E keep \in BOOLEAN :
         /\ loc' = [loc EXCEPT ![t] = [NoLoc EXCEPT !.seen_len = Len(centroids),
                                                     !.held = keep]]
         /\ cen_lock' = IF keep
                        THEN [cen_lock EXCEPT !.readers[t] = @ + 1]
                        ELSE cen_lock
    /\ spc' = [spc EXCEPT ![t] = "rd_table"]
    /\ UNCHANGED <<qdata, data_lock, issued, writers_first, sres>>

\* ... and then partial_distance
RdTableSecond(t) ==
    /\ UNCHANGED <<domVars, cenVars, ioVars>>
    /\ spc[t] = "rd_table"
    /\ loc' = [loc EXCEPT ![t].seen_size = distances.size,
                          ![t].during = StoreInProgress]
    /\ spc' = [spc EXCEPT ![t] = "rd_done"]
    /\ UNCHANGED <<cen_lock, qdata, data_lock, issued, writers_first, sres, ops>>

\* the reader is done with both; a handle it still holds is dropped
RdReturn(t) ==
    /\ UNCHANGED <<domVars, cenVars, ioVars>>
    /\ spc[t] = "rd_done"
    /\ cen_lock' = IF loc[t].held
                   THEN [cen_lock EXCEPT !.readers[t] = @ - 1]
                   ELSE cen_lock
    /\ ShReturn(t, [NoSRes EXCEPT !.op = "read",
                                  !.ids = <<loc[t].seen_size, loc[t].seen_len>>])
    /\ UNCHANGED <<qdata, data_lock, issued, writers_first, ops>>

\* QuantizedNNComparator::store (both widths have this body), first half:
\* let mut data = self.data.write().unwrap(); let vid = data.len();
QsLock(t) ==
    /\ UNCHANGED <<domVars, cenVars, ioVars>>
    /\ spc[t] = "idle"
    /\ ops < MaxOps
    /\ ops' = ops + 1
    /\ Free(data_lock)
    /\ data_lock' = [data_lock EXCEPT !.writer = t]
    /\ \E batch \in QBatches :
         loc' = [loc EXCEPT ![t] = [NoLoc EXCEPT !.vid = Len(qdata), !.batch = batch]]
    /\ spc' = [spc EXCEPT ![t] = "qs_extend"]
    /\ UNCHANGED <<cen_lock, qdata, issued, writers_first, sres>>

\* ... second half: data.extend(..) pushing VectorId(vid + i) for the i-th
\* record, return the ids, drop the write guard
QsExtend(t) ==
    /\ UNCHANGED <<domVars, cenVars, ioVars>>
    /\ spc[t] = "qs_extend"
    /\ LET ids == StoredIds(loc[t].vid, Len(loc[t].batch))
       IN  /\ qdata' = qdata \o loc[t].batch
           /\ issued' = issued \cup {ids[i] : i \in 1..Len(ids)}
           /\ ShReturn(t, [NoSRes EXCEPT !.op = "qstore", !.ids = ids,
                                         !.batch = loc[t].batch])
    /\ data_lock' = [data_lock EXCEPT !.writer = None]
    /\ UNCHANGED <<cen_lock, ops, writers_first>>

\* QuantizedNNComparator::lookup and the deref of its ReadLockedVec:
\* data.read(), then &self.lock[self.id.0]; the handle is dropped afterwards
QLookup(t) ==
    /\ UNCHANGED <<domVars, cenVars, ioVars>>
    /\ spc[t] = "idle"
    /\ ops < MaxOps
    /\ ops' = ops + 1
    /\ CanRead(data_lock)
    /\ \E id \in 0..(Len(qdata) - 1) :
         ShReturn(t, [NoSRes EXCEPT !.op = "qlookup", !.ids = <<id>>,
                                    !.batch = <<qdata[id + 1]>>])
    /\ UNCHANGED <<cen_lock, qdata, data_lock, issued, writers_first>>

\* a Centroid32Comparator as deserialize or a struct literal builds it, cloned
\* once per thread, next to a quantized comparator with an empty record list
ShInit ==
    /\ engine = "Centroid32"
    /\ overflow_checks = FALSE
    /\ centroids \in ShLists
    /\ distances = MemoizedNew(centroids)
    /\ ret = <<>>

InitShared == DomInit /\ ShInit /\ ShIdle /\ IoIdle

NextShared ==
    \/ \E t \in Threads : StBegin(t)
    \/ \E t \in Threads : StSwap(t)
    \/ \E t \in Threads : RdTableFirst(t)
    \/ \E t \in Threads : RdListSecond(t)
    \/ \E t \in Threads : RdListFirst(t)
    \/ \E t \in Threads : RdTableSecond(t)
    \/ \E t \in Threads : RdReturn(t)
    \/ \E t \in Threads : QsLock(t)
    \/ \E t \in Threads : QsExtend(t)
    \/ \E t \in Threads : QLookup(t)

SpecShared == InitShared /\ [][NextShared]_vars

(***************************************************************************)
(* Properties of shared comparators                                        *)
(***************************************************************************)
\* C11: a reader of a shared Centroid32Comparator that reads the table and the
\* centroid list, in either order, with a store in progress at one of the two
\* reads, never ends up with a table dimension that differs from the list
\* length it obtained.
C11_ReaderSeesConsistent ==
    \A t \in Threads :
       (spc[t] = "rd_done" /\ loc[t].during) => loc[t].seen_size = loc[t].seen_len

\* C12: a quantized store returns the ids n, n+1, .. of its records in
\* insertion order, n being the list length at the moment of the append; the
\* ids of different store calls never overlap, the list holds the call's
\* records at exactly those positions, and no record already in the list is
\* ever changed, so a later lookup(id) yields what that store inserted.
C12_StoreIdsDisjointContiguous ==
    [][/\ \A i \in 1..Len(qdata) : Len(qdata') >= i /\ qdata'[i] = qdata[i]
       /\ \A t \in Threads :
            (spc[t] = "qs_extend" /\ spc'[t] = "idle") =>
               LET n == Len(qdata)
                   k == Len(sres'.batch)
               IN  /\ sres'.ids = [i \in 1..k |-> n + i - 1]
                   /\ Len(qdata') = n + k
                   /\ \A i \in 1..k : /\ sres'.ids[i] \notin issued
                                      /\ qdata'[sres'.ids[i] + 1] = sres'.batch[i]
       /\ \A t \in Threads :
            (spc[t] = "idle" /\ sres' # sres /\ sres'.op = "qlookup") =>
               sres'.batch = <<qdata[sres'.ids[1] + 1]>>]_vars

\* two clones have stored one after the other, the second while the first
\* call's records were in the list, and every id issued is a position of it
C12_Witness ==
    /\ sres.op = "qstore"
    /\ sres.ids[1] > 0
    /\ \E i \in 1..Len(qdata) : qdata[i] # sres.batch[1]
    /\ Cardinality(issued) = Len(qdata)

(***************************************************************************)
(* Serializable for the centroid and quantized comparators, compare_raw on  *)
(* inline centroids, and vector_chunks                                      *)
(***************************************************************************)
\* centroids cut to four components, and the lists a comparator is built with
IoCentroids == {<<1, 1, 0, 0>>, <<0, 0, 1, 1>>}
\* longest centroid list a comparator of this part is built with
MaxList == 2
IoLists == SeqsUpTo(IoCentroids, MaxList)

\* the in-memory bytes of one component (two bytes, low one first), of one
\* centroid, and of a Vec of centroids: what from_raw_parts exposes
ComponentBytes(x) == <<x % 2, x \div 2>>
RECURSIVE CentroidBytes(_)
CentroidBytes(c) ==
    IF c = <<>> THEN <<>> ELSE ComponentBytes(Head(c)) \o CentroidBytes(Tail(c))
RECURSIVE VecBytes(_)
VecBytes(v) == IF v = <<>> THEN <<>> ELSE CentroidBytes(Head(v)) \o VecBytes(Tail(v))

\* CENTROID_32_BYTE_LENGTH / CENTROID_16_BYTE_LENGTH: size_of one centroid
CentroidByteLength == Len(CentroidBytes(<<0, 0, 0, 0>>))
\* size_of::<Quantized32Embedding>(): two bytes per u16 code
QuantizedByteLength == 2 * QuantizedLen

\* the centroids that read_exact leaves in a Vec of n default centroids
\* whose memory is filled with `bytes`
ComponentOf(lo, hi) == lo + 2 * hi
CentroidOf(bytes) ==
    [k \in 1..(Len(bytes) \div 2) |-> ComponentOf(bytes[2 * k - 1], bytes[2 * k])]
VecOf(bytes, n) ==
    [k \in 1..n |->
        CentroidOf(SubSeq(bytes, (k - 1) * CentroidByteLength + 1,
                          k * CentroidByteLength))]

\* std::fs::write(path, buf): create the file or truncate it, then write buf
FsWrite_NoTruncate(f, buf) ==
    [exists |-> TRUE,
     bytes |-> buf \o SubSeq(f.bytes, Len(buf) + 1, Len(f.bytes))]
FsWrite(f, buf) == [exists |-> TRUE, bytes |-> buf]

\* files found at the path before any call: none, an empty one, one with a
\* torn record, and one longer than anything the model serializes
PriorIndexFiles ==
    {NoFile,
     [exists |-> TRUE, bytes |-> <<>>],
     [exists |-> TRUE, bytes |-> VecBytes(<< <<1, 1, 0, 0>> >>) \o <<1, 0, 1>>],
     [exists |-> TRUE, bytes |-> VecBytes([k \in 1..(MaxList + 1) |-> <<0, 0, 1, 1>>])]}
PriorVectorFiles ==
    {[exists |-> TRUE, bytes |-> <<>>],
     [exists |-> TRUE, bytes |-> [k \in 1..QuantizedByteLength |-> 0]],
     [exists |-> TRUE, bytes |-> [k \in 1..(QuantizedByteLength + 1) |-> 0]]}

\* CentroidNNComparator::serialize: centroids.read(), the list's memory as
\* bytes, std::fs::write(path, buf)?.  A failing write leaves the file as it
\* was (it could not be opened) or truncated (it could not be written).
Serialize ==
    /\ UNCHANGED <<domVars, cenVars, shVars>>
    /\ CanRead(cen_lock)
    /\ \/ /\ path' = [path EXCEPT !["index"] = FsWrite(@, VecBytes(centroids))]
          /\ serialized' = [NoSerialized EXCEPT !.done = TRUE, !.list = centroids,
                                                 !.prior = Len(path["index"].bytes)]
       \/ UNCHANGED <<path, serialized>>
       \/ /\ path' = [path EXCEPT !["index"] = FsWrite(@, <<>>)]
          /\ serialized' = NoSerialized
    /\ UNCHANGED <<loaded, cmp, vc>>

IoErr(op) == [NoLoaded EXCEPT !.op = op, !.outcome = "io_err"]

\* CentroidNNComparator::deserialize:
\*   let size = std::fs::metadata(&path)?.size() as usize;
\*   assert_eq!(0, size % CENTROID_NN_BYTE_LENGTH);
\*   let mut vec = vec![default; size / CENTROID_NN_BYTE_LENGTH];
\*   file.read_exact(buf)?;  Ok(Self { distances: new(&vec), centroids: vec })
DeserializeCentroids(f) ==
    IF ~f.exists THEN IoErr("deserialize")
    ELSE LET size == Len(f.bytes)
             number_of_centroids == size \div CentroidByteLength
             vec == VecOf(f.bytes, number_of_centroids)
         IN  IF size % CentroidByteLength # 0
             THEN [NoLoaded EXCEPT !.op = "deserialize", !.outcome = "panic"]
             ELSE [NoLoaded EXCEPT !.op = "deserialize", !.outcome = "ok",
                                   !.centroids = vec,
                                   !.distances = MemoizedNew(vec)]

\* the records read_exact leaves in a Vec of n zeroed quantized embeddings
QDataOf(bytes, n) ==
    [k \in 1..n |->
        [c \in 1..QuantizedLen |->
            LET at == (k - 1) * QuantizedByteLength + 2 * c
            IN  bytes[at - 1] + 256 * bytes[at]]]

\* QuantizedNNComparator::deserialize: the centroid comparator from
\* path/index (its error or panic ends the call), then path/vectors:
\*   assert_eq!(0, size % size_of::<QuantizedNNEmbedding>()); read_exact(buf)?
DeserializeQuantized(index, vectors) ==
    LET cc == DeserializeCentroids(index)
        size == Len(vectors.bytes)
    IN  IF cc.outcome # "ok" THEN [cc EXCEPT !.op = "qdeserialize"]
        ELSE IF ~vectors.exists THEN IoErr("qdeserialize")
        ELSE IF size % QuantizedByteLength # 0
        THEN [NoLoaded EXCEPT !.op = "qdeserialize", !.outcome = "panic"]
        ELSE [cc EXCEPT !.op = "qdeserialize",
                        !.data = QDataOf(vectors.bytes, size \div QuantizedByteLength)]

\* a call of CentroidNNComparator::deserialize; any file operation may fail
Deserialize ==
    /\ UNCHANGED <<domVars, cenVars, shVars>>
    /\ loaded' \in {DeserializeCentroids(path["index"]), IoErr("deserialize")}
    /\ UNCHANGED <<path, serialized, cmp, vc>>

\* a call of QuantizedNNComparator::deserialize
QDeserialize ==
    /\ UNCHANGED <<domVars, cenVars, shVars>>
    /\ loaded' \in {DeserializeQuantized(path["index"], path["vectors"]),
                    IoErr("qdeserialize")}
    /\ UNCHANGED <<path, serialized, cmp, vc>>

\* vecmath::euclidean_distance_32 / _16
EuclideanDistance(v1, v2) == Sqrt(EuclideanPartialDistance(v1, v2))

\* CentroidNNComparator::compare_raw
CompareRaw_Vocabulary(v1, v2) ==
    IF centroids = <<>> THEN 0 ELSE EuclideanDistance(v1, v2)
CompareRaw(v1, v2) == EuclideanDistance(v1, v2)

\* vectors handed to a comparison inline, not by id
InlineVecs == IoCentroids \cup {<<0, 0, 0, 0>>}

\* compare_vec(AbstractVector::Unstored(&v1), AbstractVector::Unstored(&v2)):
\* both sides are inline, so it is compare_raw(v1, v2)
CompareInline ==
    /\ UNCHANGED <<domVars, cenVars, shVars>>
    /\ \E v1, v2 \in InlineVecs :
         cmp' = [done |-> TRUE, v1 |-> v1, v2 |-> v2, value |-> CompareRaw(v1, v2)]
    /\ UNCHANGED <<path, serialized, loaded, vc>>

\* vectors in the domain vector_chunks streams
MaxVecs == 5
\* vectors per batch: stands for the 16_384 of ChunkedVecIterator::next
BatchSize == 2

\* the for loop of ChunkedVecIterator::next over (iter..n), each item the
\* vector loaded from that index: push, and break at a full batch
NextChunk_NoBreak(iter, n) == [k \in 1..(n - iter) |-> iter + k - 1]
NextChunk(iter, n) == [k \in 1..Min(BatchSize, n - iter) |-> iter + k - 1]

\* ChunkedVecIterator::next on the iterator vector_chunks() returned
VcNext ==
    /\ UNCHANGED <<domVars, cenVars, shVars>>
    /\ LET chunk == NextChunk(vc.iter, vc.n)
       IN  vc' = IF chunk = <<>>
                 THEN [vc EXCEPT !.last = "none"]
                 ELSE [vc EXCEPT !.iter = @ + Len(chunk), !.out = Append(@, chunk),
                                 !.last = "some"]
    /\ UNCHANGED <<path, serialized, loaded, cmp>>

\* a centroid comparator over some list, with files already at the path
IoInit ==
    /\ engine \in {"Centroid32", "Centroid16"}
    /\ overflow_checks = FALSE
    /\ centroids \in IoLists
    /\ distances = MemoizedNew(centroids)
    /\ ret = <<>>
    /\ path \in [Files -> PriorIndexFiles \cup PriorVectorFiles]
    /\ path["meta"] = NoFile
    /\ path["index"] \in PriorIndexFiles
    /\ path["vectors"] \in PriorVectorFiles
    /\ serialized = NoSerialized
    /\ loaded = NoLoaded
    /\ cmp = NoCmp
    /\ vc = NoChunks

InitIO == DomInit /\ ShIdle /\ IoInit

NextIO == Serialize \/ Deserialize \/ QDeserialize

SpecIO == InitIO /\ [][NextIO]_vars

\* a centroid comparator over some list, and the iterator vector_chunks()
\* builds over a domain of n vectors
PureInit ==
    /\ engine \in {"Centroid32", "Centroid16"}
    /\ overflow_checks = FALSE
    /\ centroids \in IoLists
    /\ distances = MemoizedNew(centroids)
    /\ ret = <<>>
    /\ path = [f \in Files |-> NoFile]
    /\ serialized = NoSerialized
    /\ loaded = NoLoaded
    /\ cmp = NoCmp
    /\ vc \in {[NoChunks EXCEPT !.n = n] : n \in 0..MaxVecs}

InitPure == DomInit /\ ShIdle /\ PureInit

NextPure == CompareInline \/ VcNext

SpecPure == InitPure /\ [][NextPure]_vars

(***************************************************************************)
(* Properties of serialization, inline comparison and vector_chunks         *)
(***************************************************************************)
\* a file whose size is not a multiple of the record width
Torn(f, width) == f.exists /\ Len(f.bytes) % width # 0

\* C14: deserializing a centroid file or a quantized-vector file whose size is
\* not a multiple of the record width returns an Err to the caller: it neither
\* panics nor yields a comparator.
C14_TornFileIsAnError ==
    [][(loaded' # loaded /\
        \/ Torn(path["index"], CentroidByteLength)
        \/ /\ loaded'.op = "qdeserialize"
           /\ path["index"].exists
           /\ Torn(path["vectors"], QuantizedByteLength))
       => loaded'.outcome \in {"format_err", "io_err"}]_vars

\* C15: deserialize from a path that serialize has written yields the centroid
\* list serialize was called on and the table MemoizedPartialDistances::new
\* builds from it, whatever the path held before; it fails only on an I/O
\* error.
C15_RoundTrip ==
    [][(loaded' # loaded /\ loaded'.op = "deserialize" /\ serialized.done)
       => /\ loaded'.outcome \in {"ok", "io_err"}
          /\ loaded'.outcome = "ok" =>
                /\ loaded'.centroids = serialized.list
                /\ loaded'.distances = MemoizedNew(serialized.list)]_vars

\* a list of at least one centroid came back from a path that held a longer
\* file before serialize
C15_Witness ==
    /\ serialized.done
    /\ serialized.prior > Len(path["index"].bytes)
    /\ loaded.op = "deserialize"
    /\ loaded.outcome = "ok"
    /\ Len(loaded.centroids) >= 1
    /\ loaded.centroids = serialized.list

RECURSIVE Flatten(_)
Flatten(ss) == IF ss = <<>> THEN <<>> ELSE Head(ss) \o Flatten(Tail(ss))

\* C16: the batches vector_chunks yields concatenate to the vectors 0..n-1 in
\* order; each is non-empty and at most a full batch, all but the last are
\* full; the sequence ends (None) exactly when all n were yielded, and for
\* n = 0 the first next() is None with no batch yielded.
C16_ChunksCoverInOrder ==
    /\ Flatten(vc.out) = [i \in 1..vc.iter |-> i - 1]
    /\ vc.iter <= vc.n
    /\ \A k \in 1..Len(vc.out) :
          /\ Len(vc.out[k]) >= 1
          /\ Len(vc.out[k]) <= BatchSize
          /\ k < Len(vc.out) => Len(vc.out[k]) = BatchSize
    /\ vc.last = "none" => vc.iter = vc.n
    /\ (vc.last = "some" /\ vc.iter < vc.n) => Len(vc.out[Len(vc.out)]) = BatchSize
    /\ vc.last # "not_called" => (vc.n = 0 <=> vc.out = <<>>)

\* the stream has ended after several batches, the last of them short
C16_Witness ==
    /\ vc.last = "none"
    /\ Len(vc.out) >= 2
    /\ Len(vc.out[Len(vc.out)]) < BatchSize

\* C17: comparing two inline centroids returns their Euclidean distance
\* whatever the comparator's vocabulary, touches neither the centroid list
\* nor its lock, and is exactly 2 for ones in the first two entries against
\* ones in the last two.
C17_InlineCompareIsEuclidean ==
    [][cmp' # cmp =>
         /\ cmp'.value = Sqrt(SumSq(cmp'.v1, cmp'.v2, 4))
         /\ (cmp'.v1 = <<1, 1, 0, 0>> /\ cmp'.v2 = <<0, 0, 1, 1>>) => cmp'.value = 2
         /\ UNCHANGED <<centroids, distances, cen_lock>>]_vars

\* the comparison of the two vectors on a comparator with no centroids
C17_Witness ==
    /\ centroids = <<>>
    /\ cmp.done
    /\ cmp.v1 = <<1, 1, 0, 0>>
    /\ cmp.v2 = <<0, 0, 1, 1>>
    /\ cmp.value = 2

(***************************************************************************)
(* Lookup handles against a waiting store: a comparison of two stored ids   *)
(* takes two ReadLockedVec handles on the same list, one after the other,   *)
(* and holds both; store on another clone asks for the list's write guard.  *)
(* std's RwLock leaves open whether a waiting writer holds back new         *)
(* readers: writers_first is that choice of the platform.                   *)
(***************************************************************************)
\* a store is blocked in centroids.write() / data.write()
CenWriterWaits == \E t \in Threads : spc[t] = "st_wait"
DataWriterWaits == \E t \in Threads : spc[t] = "qs_wait"

\* RwLock::read() returns: no write guard is out and, where waiting writers
\* go first, none is waiting
ReadGranted(l, writer_waits) == l.writer = None /\ (writers_first => ~writer_waits)

\* Centroid32Comparator::store is called and blocks in centroids.write()
StRequest(t) ==
    /\ UNCHANGED <<domVars, cenVars, ioVars>>
    /\ spc[t] = "idle"
    /\ ops < MaxOps
    /\ ops' = ops + 1
    /\ \E batch \in ShBatches : loc' = [loc EXCEPT ![t] = [NoLoc EXCEPT !.batch = batch]]
    /\ spc' = [spc EXCEPT ![t] = "st_wait"]
    /\ UNCHANGED <<cen_lock, qdata, data_lock, issued, writers_first, sres>>

\* ... centroids.write() returns: vid = data.len(), data.extend(..), the new
\* table into a local
StAcquire(t) ==
    /\ UNCHANGED <<domVars, ioVars>>
    /\ spc[t] = "st_wait"
    /\ Free(cen_lock)
    /\ loc' = [loc EXCEPT ![t].vid = Len(centroids)]
    /\ centroids' = centroids \o loc[t].batch
    /\ cen_lock' = [cen_lock EXCEPT !.writer = t]
    /\ spc' = [spc EXCEPT ![t] = "st_swap"]
    /\ UNCHANGED <<engine, distances, ret, overflow_checks, qdata, data_lock,
                   issued, writers_first, sres, ops>>

\* Centroid32Comparator::lookup of the first stored id: centroids.read(), the
\* handle is kept
CmpFirst(t) ==
    /\ UNCHANGED <<domVars, cenVars, ioVars>>
    /\ spc[t] = "idle"
    /\ ops < MaxOps
    /\ ops' = ops + 1
    /\ ReadGranted(cen_lock, CenWriterWaits)
    /\ cen_lock' = [cen_lock EXCEPT !.readers[t] = @ + 1]
    /\ loc' = [loc EXCEPT ![t] = [NoLoc EXCEPT !.held = TRUE]]
    /\ spc' = [spc EXCEPT ![t] = "cmp_second"]
    /\ UNCHANGED <<qdata, data_lock, issued, writers_first, sres>>

\* ... lookup of the second stored id while the first handle is held
CmpSecond(t) ==
    /\ UNCHANGED <<domVars, cenVars, ioVars>>
    /\ spc[t] = "cmp_second"
    /\ ReadGranted(cen_lock, CenWriterWaits)
    /\ cen_lock' = [cen_lock EXCEPT !.readers[t] = @ + 1]
    /\ spc' = [spc EXCEPT ![t] = "cmp_done"]
    /\ UNCHANGED <<qdata, data_lock, loc, issued, writers_first, sres, ops>>

\* ... compare_raw on the two derefs, then both handles are dropped
CmpReturn(t) ==
    /\ UNCHANGED <<domVars, cenVars, ioVars>>
    /\ spc[t] = "cmp_done"
    /\ cen_lock' = [cen_lock EXCEPT !.readers[t] = @ - 2]
    /\ ShReturn(t, [NoSRes EXCEPT !.op = "compare"])
    /\ UNCHANGED <<qdata, data_lock, issued, writers_first, ops>>

\* QuantizedNNComparator::store is called and blocks in data.write()
QsRequest(t) ==
    /\ UNCHANGED <<domVars, cenVars, ioVars>>
    /\ spc[t] = "idle"
    /\ ops < MaxOps
    /\ ops' = ops + 1
    /\ \E batch \in QBatches : loc' = [loc EXCEPT ![t] = [NoLoc EXCEPT !.batch = batch]]
    /\ spc' = [spc EXCEPT ![t] = "qs_wait"]
    /\ UNCHANGED <<cen_lock, qdata, data_lock, issued, writers_first, sres>>

\* ... data.write() returns: let vid = data.len();
QsAcquire(t) ==
    /\ UNCHANGED <<domVars, cenVars, ioVars>>
    /\ spc[t] = "qs_wait"
    /\ Free(data_lock)
    /\ data_lock' = [data_lock EXCEPT !.writer = t]
    /\ loc' = [loc EXCEPT ![t].vid = Len(qdata)]
    /\ spc' = [spc EXCEPT ![t] = "qs_extend"]
    /\ UNCHANGED <<cen_lock, qdata, issued, writers_first, sres, ops>>

\* QuantizedNNComparator::lookup of the first stored id: data.read(), the
\* handle is kept
QCmpFirst(t) ==
    /\ UNCHANGED <<domVars, cenVars, ioVars>>
    /\ spc[t] = "idle"
    /\ ops < MaxOps
    /\ ops' = ops + 1
    /\ ReadGranted(data_lock, DataWriterWaits)
    /\ data_lock' = [data_lock EXCEPT !.readers[t] = @ + 1]
    /\ loc' = [loc EXCEPT ![t] = [NoLoc EXCEPT !.held = TRUE]]
    /\ spc' = [spc EXCEPT ![t] = "qcmp_second"]
    /\ UNCHANGED <<cen_lock, qdata, issued, writers_first, sres>>

\* ... lookup of the second stored id while the first handle is held
QCmpSecond(t) ==
    /\ UNCHANGED <<domVars, cenVars, ioVars>>
    /\ spc[t] = "qcmp_second"
    /\ ReadGranted(data_lock, DataWriterWaits)
    /\ data_lock' = [data_lock EXCEPT !.readers[t] = @ + 1]
    /\ spc' = [spc EXCEPT ![t] = "qcmp_done"]
    /\ UNCHANGED <<cen_lock, qdata, loc, issued, writers_first, sres, ops>>

\* ... compare_raw on the two derefs, then both handles are dropped
QCmpReturn(t) ==
    /\ UNCHANGED <<domVars, cenVars, ioVars>>
    /\ spc[t] = "qcmp_done"
    /\ data_lock' = [data_lock EXCEPT !.readers[t] = @ - 2]
    /\ ShReturn(t, [NoSRes EXCEPT !.op = "qcompare"])
    /\ UNCHANGED <<cen_lock, qdata, issued, writers_first, ops>>

\* a Centroid32Comparator and a quantized comparator that each hold a stored
\* vector, cloned once per thread, on a platform of either lock policy
HandlesInit ==
    /\ engine = "Centroid32"
    /\ overflow_checks = FALSE
    /\ centroids = << <<0, 0>> >>
    /\ distances = MemoizedNew(centroids)
    /\ ret = <<>>
    /\ cen_lock = NoLock
    /\ qdata = << <<0, 0>> >>
    /\ data_lock = NoLock
    /\ spc = [t \in Threads |-> "idle"]
    /\ loc = [t \in Threads |-> NoLoc]
    /\ issued = {0}
    /\ sres = NoSRes
    /\ ops = 0
    /\ writers_first \in BOOLEAN

InitHandles == DomInit /\ HandlesInit /\ IoIdle

\* the steps of clone t inside a call
HandleStep(t) ==
    \/ StAcquire(t)
    \/ StSwap(t)
    \/ CmpSecond(t)
    \/ CmpReturn(t)
    \/ QsAcquire(t)
    \/ QsExtend(t)
    \/ QCmpSecond(t)
    \/ QCmpReturn(t)

NextHandles ==
    \/ \E t \in Threads : StRequest(t)
    \/ \E t \in Threads : StAcquire(t)
    \/ \E t \in Threads : StSwap(t)
    \/ \E t \in Threads : CmpFirst(t)
    \/ \E t \in Threads : CmpSecond(t)
    \/ \E t \in Threads : CmpReturn(t)
    \/ \E t \in Threads : QsRequest(t)
    \/ \E t \in Threads : QsAcquire(t)
    \/ \E t \in Threads : QsExtend(t)
    \/ \E t \in Threads : QCmpFirst(t)
    \/ \E t \in Threads : QCmpSecond(t)
    \/ \E t \in Threads : QCmpReturn(t)

\* every clone is scheduled again and again; a step waits only for its lock
SpecHandles ==
    InitHandles /\ [][NextHandles]_vars /\ \A t \in Threads : WF_vars(HandleStep(t))

\* C23: a thread that holds one lookup handle and asks for a second on the
\* same comparator always gets it and finishes its comparison, and a store
\* waiting for the list's write guard always gets it and returns, also where
\* waiting writers hold back new readers.
C23_SecondHandleGranted ==
    \A t \in Threads :
       /\ (spc[t] \in {"cmp_second", "qcmp_second"}) ~> (spc[t] = "idle")
       /\ (spc[t] \in {"st_wait", "qs_wait"}) ~> (spc[t] = "idle")

(***************************************************************************)
(* Serializable for OpenAIComparator: the metadata file                    *)
(***************************************************************************)
\* domain names, letter by letter
Letters == {"a", "b"}
DomainNames == {<<"a">>, <<"a", "b">>, <<"a", "b", "a">>}

\* serde_json::to_string(&ComparatorMeta { domain, size: 2_000_000 }), one
\* element per token of the text
MetaJson(domain) ==
    <<"{", "domain", ":">> \o domain \o <<",", "size", ":", "2000000", "}">>

\* OpenOptions::new().write(true).create(true).open(path), then write_all:
\* the file is created if missing and written from offset 0; nothing asks
\* for truncation, so what an older file held past the new bytes stays
OpenWriteAll(f, buf) ==
    [exists |-> TRUE,
     bytes |-> buf \o SubSeq(f.bytes, Len(buf) + 1, Len(f.bytes))]

\* serde_json::from_str::<ComparatorMeta>(&contents): the whole text must be
\* one metadata object, followed by nothing but whitespace
ParseMeta(bytes) ==
    LET fits(d) ==
            /\ Len(bytes) >= Len(MetaJson(d))
            /\ SubSeq(bytes, 1, Len(MetaJson(d))) = MetaJson(d)
            /\ \A k \in (Len(MetaJson(d)) + 1)..Len(bytes) : bytes[k] = " "
        names == {d \in SeqsUpTo(Letters, 3) : fits(d)}
    IN  IF names = {} THEN [ok |-> FALSE, domain |-> <<>>]
        ELSE [ok |-> TRUE, domain |-> CHOOSE d \in names : TRUE]

\* metadata files found at the path before any call: none, an empty one, the
\* metadata of the longest name, and whitespace
PriorMetaFiles ==
    {NoFile,
     [exists |-> TRUE, bytes |-> <<>>],
     [exists |-> TRUE, bytes |-> MetaJson(<<"a", "b", "a">>)],
     [exists |-> TRUE, bytes |-> [k \in 1..(Len(MetaJson(<<"a", "b", "a">>)) + 1) |-> " "]]}

\* OpenAIComparator::serialize of a comparator bound to some domain; open,
\* to_string or write_all may fail
MetaSerialize ==
    /\ UNCHANGED <<domVars, cenVars, shVars>>
    /\ \/ \E d \in DomainNames :
            /\ path' = [path EXCEPT !["meta"] = OpenWriteAll(@, MetaJson(d))]
            /\ serialized' = [NoSerialized EXCEPT !.done = TRUE, !.domain = d,
                                                   !.prior = Len(path["meta"].bytes)]
       \/ /\ serialized' = NoSerialized
          /\ UNCHANGED path
    /\ UNCHANGED <<loaded, cmp, vc>>

\* OpenAIComparator::deserialize: open(path)?, read_to_string?, from_str?,
\* store.get_domain(&domain)?, Ok(OpenAIComparator { domain, store })
MetaDeserialize ==
    /\ UNCHANGED <<domVars, cenVars, shVars>>
    /\ LET meta == ParseMeta(path["meta"].bytes)
       IN  loaded' \in
             {IoErr("meta_deserialize"),
              IF ~path["meta"].exists THEN IoErr("meta_deserialize")
              ELSE IF ~meta.ok
              THEN [NoLoaded EXCEPT !.op = "meta_deserialize", !.outcome = "format_err"]
              ELSE [NoLoaded EXCEPT !.op = "meta_deserialize", !.outcome = "ok",
                                    !.domain = meta.domain]}
    /\ UNCHANGED <<path, serialized, cmp, vc>>

\* an OpenAIComparator and whatever is at the path it is serialized to
MetaInit ==
    /\ engine = "Centroid32"
    /\ overflow_checks = FALSE
    /\ centroids = <<>>
    /\ distances = MemoizedNew(centroids)
    /\ ret = <<>>
    /\ path \in [Files -> PriorMetaFiles]
    /\ path["index"] = NoFile
    /\ path["vectors"] = NoFile
    /\ serialized = NoSerialized
    /\ loaded = NoLoaded
    /\ cmp = NoCmp
    /\ vc = NoChunks

InitMeta == DomInit /\ ShIdle /\ MetaInit

NextMeta == MetaSerialize \/ MetaDeserialize

SpecMeta == InitMeta /\ [][NextMeta]_vars

\* C24: OpenAIComparator::serialize leaves exactly the new metadata record at
\* the path, whatever the path held before, and deserialize from that path
\* yields a comparator bound to the domain of the same name, failing only on
\* an I/O error.
C24_MetaRoundTrip ==
    [][/\ (serialized' # serialized /\ serialized'.done) =>
             path'["meta"].bytes = MetaJson(serialized'.domain)
       /\ (loaded' # loaded /\ serialized.done) =>
             /\ loaded'.outcome \in {"ok", "io_err"}
             /\ loaded'.outcome = "ok" => loaded'.domain = serialized.domain]_vars

====
